---- MODULE Spec2Model ----
(***************************************************************************)
(* Pinboard -> Raindrop migration: the rule matcher, the payload builder,  *)
(* the collection-map loader and the batch loop of                         *)
(* pinboard_to_raindrop.py, as a state machine.                            *)
(*                                                                         *)
(*   Spec        runs of main() over an export, the destination kept       *)
(*               between a run and its re-run                              *)
(*   SpecConfig  the same runs, started with every shape of collection map *)
(*   SpecBuild   pinboard_to_raindrop_payload alone, over entries, options *)
(*               and rule lists                                            *)
(*   SpecSuggest runs of suggest_collections.main() over the unsorted      *)
(*               records of a destination                                  *)
(*                                                                         *)
(* Representation.                                                         *)
(*   - A Python dict is a function whose DOMAIN is the set of its keys;    *)
(*     d.get(k) is Get(d, k, default).                                     *)
(*   - Optional[int] is a set: None is {}, the integer n is {n}.  Python   *)
(*     truthiness of such a value is Truthy.                               *)
(*   - A string that is only tested for emptiness or equality is a TLA+    *)
(*     string; "" is the empty string and also stands for a missing/None   *)
(*     string where the code only tests truthiness (href, extended, time). *)
(*   - The raw tag string is the token list tag_str.split(" ") yields      *)
(*     (empty tokens "" come from repeated spaces).                        *)
(*   - sorted(set(..)) of tags is the set of tags (a canonical value).     *)
(*   - The destination service is the sequence raindrops; a record's _id   *)
(*     is its position (ids the service assigns are positive).             *)
(***************************************************************************)
EXTENDS Integers, Sequences, FiniteSets, TLC

VARIABLES
    pc,               \* position of main(): "load", "loop", "done", "fatal", "crashed"; "build"/"built" for the builder alone
    mapdata,          \* the JSON value in the --collection-map file (NoPath: option not given)
    collection_rules, \* main: collection_rules
    args,             \* main: args (the parsed command line)
    pinboard_posts,   \* main: pinboard_posts
    idx,              \* number of entries the for loop has taken
    seen_links,       \* main: seen_links
    stats,            \* main: stats
    raindrops,        \* the destination service's records
    run,              \* which invocation of the program this is
    last,             \* what the latest loop iteration did (observation only)
    payload,          \* the payload built latest
    items             \* suggest_collections.main: items (the fetched unsorted records)

vars == <<pc, mapdata, collection_rules, args, pinboard_posts, idx, seen_links,
          stats, raindrops, run, last, payload, items>>

-----------------------------------------------------------------------------
(* Bounds *)

MaxPosts == 3

MaxLimit == 2

MaxRules == 2

MaxRuns == 2

MaxItems == 2

-----------------------------------------------------------------------------
(* Python values *)

None == {}

Some(n) == {n}

Val(o) == CHOOSE n \in o : TRUE

\* bool(x) for an Optional[int]
Truthy(o) == o # None /\ o # Some(0)

\* d.get(k, default)
Get(d, k, default) == IF k \in DOMAIN d THEN d[k] ELSE default

EmptyDict == [k \in {} |-> 0]

\* str.lower() on the tag alphabet
Lower(t) ==
    CASE t = "Work" -> "work"
      [] t = "Read" -> "read"
      [] OTHER -> t

\* the elements of a sequence
Range(s) == {s[i] : i \in DOMAIN s}

\* all sequences over S of length 0..n
SeqUpTo(S, n) == UNION {[1..k -> S] : k \in 0..n}

-----------------------------------------------------------------------------
(* normalize_tags *)

normalize_tags(tag_str, lowercase, toread, toread_tag) ==
    LET tags0 == SelectSeq(tag_str, LAMBDA t : t # "")
        tags1 == IF toread /\ toread_tag # "" THEN Append(tags0, toread_tag) ELSE tags0
        tags2 == IF lowercase THEN [i \in DOMAIN tags1 |-> Lower(tags1[i])] ELSE tags1
    IN  Range(tags2)

-----------------------------------------------------------------------------
(* guess_collection_from_tags *)

\* mutant: the last matching rule wins
guess_collection_last_match(tags, rules, default_id) ==
    LET hits == {i \in DOMAIN rules : \E tag \in Range(rules[i].tags) : tag \in tags}
    IN  IF hits = {} THEN default_id
        ELSE rules[CHOOSE i \in hits : \A j \in hits : j <= i].collection_id

RECURSIVE guess_from(_, _, _, _)
guess_from(i, tags, rules, default_id) ==
    IF i > Len(rules) THEN default_id
    ELSE IF \E k \in DOMAIN rules[i].tags : rules[i].tags[k] \in tags
         THEN rules[i].collection_id
         ELSE guess_from(i + 1, tags, rules, default_id)

guess_collection_from_tags(tags, rules, default_id) ==
    guess_from(1, tags, rules, default_id)

-----------------------------------------------------------------------------
(* select_collection_id *)

\* mutant: the rules are consulted first, the read-later id is the fallback
select_collection_rules_first(entry, tags, default_id, readlater_id, rules) ==
    LET g == guess_collection_from_tags(tags, rules, default_id)
    IN  IF g # default_id THEN g
        ELSE IF readlater_id # None /\ Get(entry, "toread", "") = "yes"
             THEN Val(readlater_id)
             ELSE default_id

select_collection_id(entry, tags, default_id, readlater_id, rules) ==
    IF readlater_id # None /\ Get(entry, "toread", "") = "yes"
    THEN Val(readlater_id)
    ELSE guess_collection_from_tags(tags, rules, default_id)

-----------------------------------------------------------------------------
(* pinboard_to_raindrop_payload *)

pinboard_to_raindrop_payload(entry, a, rules) ==
    LET toread_flag == Get(entry, "toread", "") = "yes"
        tags == normalize_tags(Get(entry, "tags", <<>>), a.lowercase_tags,
                               toread_flag, a.toread_tag)
        base == [link |-> entry.href,
                 title |-> IF Get(entry, "description", "") # ""
                           THEN entry.description ELSE entry.href,
                 tags |-> tags,
                 important |-> "starred" \in tags,
                 collection |-> select_collection_id(entry, tags, a.collection_id,
                                                     a.readlater_collection_id, rules)]
        extended == Get(entry, "extended", "")
        withNote == IF extended # ""
                    THEN ("note" :> extended) @@ ("excerpt" :> extended) @@ base
                    ELSE base
        created == Get(entry, "time", "")
    IN  IF created # ""
        THEN ("created" :> created) @@ ("lastUpdate" :> created) @@ withNote
        ELSE withNote

-----------------------------------------------------------------------------
(* load_collection_map *)

(* A JSON value is [t |-> type, v |-> value]: t is "object" (v a dict of JSON  *)
(* values), "list" (v a sequence of JSON values), "str", "num" or "null".     *)
JObj(d) == [t |-> "object", v |-> d]

JList(s) == [t |-> "list", v |-> s]

JStr(s) == [t |-> "str", v |-> s]

JNum(n) == [t |-> "num", v |-> n]

JNull == [t |-> "null", v |-> 0]

\* --collection-map not given: load_collection_map(None)
NoPath == [t |-> "nopath", v |-> 0]

\* int(x): a number converts, a numeric string is parsed, any other string is a
\* ValueError, any other type a TypeError
PyInt(x) ==
    CASE x.t = "num" -> [err |-> "none", val |-> x.v]
      [] x.t = "str" /\ x.v = "7" -> [err |-> "none", val |-> 7]
      [] x.t = "str" /\ x.v # "7" -> [err |-> "ValueError", val |-> 0]
      [] OTHER -> [err |-> "TypeError", val |-> 0]

\* isinstance(tags, list) and all(isinstance(t, str) for t in tags)
IsListOfStr(x) == x.t = "list" /\ \A i \in DOMAIN x.v : x.v[i].t = "str"

RECURSIVE load_from(_, _, _)
load_from(i, data, rules) ==
    IF i > Len(data) THEN [err |-> "none", rules |-> rules]
    ELSE LET rule == data[i] IN
         IF rule.t # "object" THEN [err |-> "ValueError", rules |-> <<>>]
         ELSE IF "collection_id" \notin DOMAIN rule.v \/ "tags" \notin DOMAIN rule.v
         THEN [err |-> "ValueError", rules |-> <<>>]
         ELSE IF ~IsListOfStr(rule.v.tags) THEN [err |-> "ValueError", rules |-> <<>>]
         ELSE LET cid == PyInt(rule.v.collection_id) IN
              IF cid.err # "none" THEN [err |-> cid.err, rules |-> <<>>]
              ELSE load_from(i + 1, data,
                     Append(rules,
                            [collection_id |-> cid.val,
                             tags |-> [k \in DOMAIN rule.v.tags.v |-> rule.v.tags.v[k].v],
                             name |-> Get(rule.v, "name", JNull)]))

load_collection_map(data) ==
    IF data.t = "nopath" THEN [err |-> "none", rules |-> <<>>]
    ELSE IF data.t # "list" THEN [err |-> "ValueError", rules |-> <<>>]
    ELSE load_from(1, data.v, <<>>)

-----------------------------------------------------------------------------
(* The destination service, as the calls of the program see it *)

\* ids of the records whose link is the one searched for
Matches(link) == {i \in DOMAIN raindrops : raindrops[i].link = link}

\* what GET /raindrops/0?search=link:..&perpage=1 can answer: an error status, a
\* transport failure, or at most one of the matching records
LookupResponses(link) ==
    {[status |-> "status", items |-> <<>>], [status |-> "transport", items |-> <<>>]}
    \cup (IF Matches(link) = {} THEN {[status |-> "ok", items |-> <<>>]}
          ELSE {[status |-> "ok", items |-> <<raindrops[i]>>] : i \in Matches(link)})

\* no search is made
NoLookup == [status |-> "none", items |-> <<>>]

\* how a write call can end: 2xx; an error status; a transport failure (the
\* request is not delivered)
WriteStatuses == {"ok", "status", "transport"}

\* the service carries a write out iff the request reached it and was accepted
Applied(status) == status = "ok"

-----------------------------------------------------------------------------
(* find_existing_raindrop, create_raindrop, update_raindrop *)

\* mutant: the search answer is read under a key the service does not send, so
\* nothing is ever found
find_existing_nothing(resp) == [item |-> None, id |-> None]

find_existing_raindrop(resp) ==
    IF resp.status = "ok" /\ resp.items # <<>>
    THEN [item |-> Some(resp.items[1]), id |-> Some(resp.items[1]._id)]
    ELSE [item |-> None, id |-> None]

\* response.raise_for_status() inside try/except HTTPStatusError; client.post /
\* client.put themselves are outside the try
WriteResult(status) ==
    [ok |-> status = "ok", exc |-> status = "transport"]

create_raindrop(status) == WriteResult(status)

update_body(payload_, existing, merge_tags) ==
    (IF merge_tags
     THEN "tags" :> (Get(existing, "tags", {}) \cup Get(payload_, "tags", {}))
     ELSE EmptyDict)
    @@ (IF Get(payload_, "note", "") # "" THEN "note" :> payload_.note ELSE EmptyDict)
    @@ (IF Get(payload_, "excerpt", "") # "" THEN "excerpt" :> payload_.excerpt ELSE EmptyDict)
    @@ (IF Get(payload_, "important", FALSE) THEN "important" :> TRUE ELSE EmptyDict)

update_raindrop(payload_, existing, merge_tags, status) ==
    LET body == update_body(payload_, existing, merge_tags)
    IN  IF DOMAIN body = {}
        THEN [ok |-> TRUE, exc |-> FALSE, sent |-> FALSE, body |-> body]
        ELSE [ok |-> WriteResult(status).ok, exc |-> WriteResult(status).exc,
              sent |-> TRUE, body |-> body]

-----------------------------------------------------------------------------
(* main: the decisions of the loop body *)

\* line 338: args.limit and stats["processed"] >= args.limit
LimitReached(limit, processed) == Truthy(limit) /\ processed >= Val(limit)

\* mutant: the link is not recorded
SeenAfterForgotten(seen, href) == seen

\* line 349
SeenAfter(seen, href) == seen \cup {href}

\* line 360
DoLookup(a) == a.skip_existing \/ a.merge_tags

\* mutant: skip_existing is tested before merge_tags
DecideSkipFirst(existing_item, existing_id, skip_existing, merge_tags) ==
    IF existing_item # None /\ skip_existing THEN "SKIP"
    ELSE IF existing_item # None /\ merge_tags /\ Truthy(existing_id) THEN "MERGE"
    ELSE "CREATE"

\* mutant: the skip branch does not test existing_item
DecideSkipUnfound(existing_item, existing_id, skip_existing, merge_tags) ==
    IF skip_existing /\ ~merge_tags THEN "SKIP"
    ELSE IF existing_item # None /\ merge_tags /\ Truthy(existing_id) THEN "MERGE"
    ELSE "CREATE"

\* lines 363-374: which branch of the if/elif/else is taken
Decide(existing_item, existing_id, skip_existing, merge_tags) ==
    IF existing_item # None /\ skip_existing /\ ~merge_tags THEN "SKIP"
    ELSE IF existing_item # None /\ merge_tags /\ Truthy(existing_id) THEN "MERGE"
    ELSE "CREATE"

ZeroStats == [processed |-> 0, created |-> 0, skipped_existing |-> 0,
              updated |-> 0, failed |-> 0, duplicate_input |-> 0]

\* mutant: a failed write is not counted
BumpUnlessFailed(st, k) == IF k = "failed" THEN st ELSE [st EXCEPT ![k] = @ + 1]

Bump(st, k) == [st EXCEPT ![k] = @ + 1]

NoLast == [kind |-> "none", href |-> "", lookup |-> "none", found |-> FALSE,
           existing_id |-> 0, action |-> "NONE", sent |-> "none", write |-> "none"]

Observed(kind, href) == [NoLast EXCEPT !.kind = kind, !.href = href]

-----------------------------------------------------------------------------
(* Inputs of a migration run *)

\* the entries a Pinboard export is drawn from
MainEntries ==
    << [href |-> "u1", description |-> "One", tags |-> <<"a">>, toread |-> "no"],
       [href |-> "u2", tags |-> <<"b", "", "starred">>, extended |-> "n2",
        toread |-> "yes", time |-> "t2"],
       [description |-> "no link", tags |-> <<"a">>] >>

\* the collection maps a migration run is started with
MainMaps ==
    << JList(<< JObj([collection_id |-> JNum(555), tags |-> JList(<<JStr("a")>>),
                      name |-> JStr("A")]) >>),
       JObj([collection_id |-> JNum(555)]) >>

\* the options that parse_args leaves at their defaults in a migration run
DefaultArgs(dry_run, skip_existing, merge_tags, limit) ==
    [dry_run |-> dry_run, skip_existing |-> skip_existing, merge_tags |-> merge_tags,
     limit |-> limit, lowercase_tags |-> FALSE, toread_tag |-> "toread",
     collection_id |-> 0, readlater_collection_id |-> None]

Limits == {None} \cup {Some(n) : n \in 0..MaxLimit}

Init ==
    /\ pc = "load"
    /\ \E m \in DOMAIN MainMaps : mapdata = MainMaps[m]
    /\ collection_rules = <<>>
    /\ \E d \in BOOLEAN, s \in BOOLEAN, g \in BOOLEAN, l \in Limits :
           args = DefaultArgs(d, s, g, l)
    /\ \E ix \in SeqUpTo(DOMAIN MainEntries, MaxPosts) :
           pinboard_posts = [i \in DOMAIN ix |-> MainEntries[ix[i]]]
    /\ idx = 0
    /\ seen_links = {}
    /\ stats = ZeroStats
    /\ raindrops = <<>>
    /\ run = 1
    /\ last = NoLast
    /\ payload = EmptyDict
    /\ items = <<>>

-----------------------------------------------------------------------------
(* main *)

\* lines 299-304: the collection map is loaded; a ValueError is fatal (exit 1),
\* any other error leaves main as a traceback
LoadConfig ==
    /\ pc = "load"
    /\ LET r == load_collection_map(mapdata) IN
         /\ pc' = CASE r.err = "none" -> "loop"
                    [] r.err = "ValueError" -> "fatal"
                    [] OTHER -> "crashed"
         /\ collection_rules' = r.rules
    /\ UNCHANGED <<items, mapdata, args, pinboard_posts, idx, seen_links, stats, raindrops,
                   run, last, payload>>

\* the entry the for loop takes next
Entry == pinboard_posts[idx + 1]

InLoop == pc = "loop" /\ idx < Len(pinboard_posts)

\* lines 337, 380: the list is exhausted, the summary is logged
LoopEnd ==
    /\ pc = "loop"
    /\ idx = Len(pinboard_posts)
    /\ pc' = "done"
    /\ last' = Observed("end", "")
    /\ UNCHANGED <<items, mapdata, collection_rules, args, pinboard_posts, idx, seen_links,
                   stats, raindrops, run, payload>>

\* lines 338-339, 380: break, the summary is logged
LimitBreak ==
    /\ InLoop
    /\ LimitReached(args.limit, stats.processed)
    /\ pc' = "done"
    /\ last' = Observed("limit", "")
    /\ UNCHANGED <<items, mapdata, collection_rules, args, pinboard_posts, idx, seen_links,
                   stats, raindrops, run, payload>>

\* lines 341-344
SkipNoHref ==
    /\ InLoop
    /\ ~LimitReached(args.limit, stats.processed)
    /\ Get(Entry, "href", "") = ""
    /\ idx' = idx + 1
    /\ last' = Observed("nohref", "")
    /\ UNCHANGED <<items, pc, mapdata, collection_rules, args, pinboard_posts, seen_links,
                   stats, raindrops, run, payload>>

\* lines 346-348
DuplicateInput ==
    /\ InLoop
    /\ ~LimitReached(args.limit, stats.processed)
    /\ Get(Entry, "href", "") # ""
    /\ Entry.href \in seen_links
    /\ stats' = Bump(stats, "duplicate_input")
    /\ idx' = idx + 1
    /\ last' = Observed("duplicate", Entry.href)
    /\ UNCHANGED <<items, pc, mapdata, collection_rules, args, pinboard_posts, seen_links,
                   raindrops, run, payload>>

\* the guard of lines 349-351: a new link, recorded and turned into a payload
Fresh ==
    /\ InLoop
    /\ ~LimitReached(args.limit, stats.processed)
    /\ Get(Entry, "href", "") # ""
    /\ Entry.href \notin seen_links

\* lines 349-356
DryRunEntry ==
    /\ Fresh
    /\ args.dry_run
    /\ seen_links' = SeenAfter(seen_links, Entry.href)
    /\ payload' = pinboard_to_raindrop_payload(Entry, args, collection_rules)
    /\ stats' = Bump(stats, "processed")
    /\ idx' = idx + 1
    /\ last' = Observed("dry", Entry.href)
    /\ UNCHANGED <<items, pc, mapdata, collection_rules, args, pinboard_posts, raindrops, run>>

\* lines 349-351, 358-378: lookup, then skip, merge or create
Reconcile ==
    /\ Fresh
    /\ ~args.dry_run
    /\ LET href == Entry.href
           p    == pinboard_to_raindrop_payload(Entry, args, collection_rules)
       IN
       /\ seen_links' = SeenAfter(seen_links, href)
       /\ payload' = p
       /\ \E resp \in (IF DoLookup(args) THEN LookupResponses(href) ELSE {NoLookup}) :
            LET ex  == IF DoLookup(args) THEN find_existing_raindrop(resp)
                       ELSE [item |-> None, id |-> None]
                act == Decide(ex.item, ex.id, args.skip_existing, args.merge_tags)
                obs == [Observed("reconcile", href) EXCEPT
                          !.lookup = resp.status, !.found = (ex.item # None),
                          !.existing_id = IF ex.id = None THEN 0 ELSE Val(ex.id),
                          !.action = act]
            IN
            CASE act = "SKIP" ->
                   /\ stats' = Bump(Bump(stats, "skipped_existing"), "processed")
                   /\ idx' = idx + 1
                   /\ last' = obs
                   /\ UNCHANGED <<pc, raindrops>>
              [] act = "MERGE" ->
                   \E status \in WriteStatuses :
                     LET u == update_raindrop(p, Val(ex.item), TRUE, status) IN
                     /\ raindrops' = IF u.sent /\ Applied(status)
                                     THEN [raindrops EXCEPT ![Val(ex.id)] = u.body @@ @]
                                     ELSE raindrops
                     /\ last' = [obs EXCEPT !.sent = IF u.sent THEN "PUT" ELSE "none",
                                            !.write = IF u.sent THEN status ELSE "none"]
                     /\ IF u.exc
                        THEN pc' = "crashed" /\ UNCHANGED <<stats, idx>>
                        ELSE /\ stats' = Bump(Bump(stats, IF u.ok THEN "updated" ELSE "failed"),
                                              "processed")
                             /\ idx' = idx + 1
                             /\ UNCHANGED pc
              [] act = "CREATE" ->
                   \E status \in WriteStatuses :
                     LET c == create_raindrop(status) IN
                     /\ raindrops' = IF Applied(status)
                                     THEN Append(raindrops, ("_id" :> Len(raindrops) + 1) @@ p)
                                     ELSE raindrops
                     /\ last' = [obs EXCEPT !.sent = "POST", !.write = status]
                     /\ IF c.exc
                        THEN pc' = "crashed" /\ UNCHANGED <<stats, idx>>
                        ELSE /\ stats' = Bump(Bump(stats, IF c.ok THEN "created" ELSE "failed"),
                                              "processed")
                             /\ idx' = idx + 1
                             /\ UNCHANGED pc
    /\ UNCHANGED <<items, mapdata, collection_rules, args, pinboard_posts, run>>

\* the operator starts the program again: same command line, same export, same
\* collection map, the destination as the earlier run left it
Rerun ==
    /\ pc \in {"done", "crashed"}
    /\ run < MaxRuns
    /\ pc' = "load"
    /\ run' = run + 1
    /\ collection_rules' = <<>>
    /\ idx' = 0
    /\ seen_links' = {}
    /\ stats' = ZeroStats
    /\ last' = NoLast
    /\ payload' = EmptyDict
    /\ UNCHANGED <<items, mapdata, args, pinboard_posts, raindrops>>

Next ==
    \/ LoadConfig
    \/ LoopEnd
    \/ LimitBreak
    \/ SkipNoHref
    \/ DuplicateInput
    \/ DryRunEntry
    \/ Reconcile
    \/ Rerun

Spec == Init /\ [][Next]_vars

-----------------------------------------------------------------------------
(* The collection-map loader in front of a migration run *)

\* the entries of a collection map file: a valid rule (its id a numeric string); a
\* rule with an empty tag list; a non-object; a rule without collection_id;
\* without tags; with tags that are no list; with a tag that is no string; with
\* an id that is no number (a ValueError of int); with a null id (a TypeError)
RawRules ==
    << JObj([collection_id |-> JStr("7"), tags |-> JList(<<JStr("a")>>), name |-> JStr("A")]),
       JObj([collection_id |-> JNum(555), tags |-> JList(<<>>)]),
       JStr("a"),
       JObj([tags |-> JList(<<JStr("a")>>)]),
       JObj([collection_id |-> JNum(1)]),
       JObj([collection_id |-> JNum(1), tags |-> JStr("a")]),
       JObj([collection_id |-> JNum(1), tags |-> JList(<<JStr("a"), JNum(1)>>)]),
       JObj([collection_id |-> JStr("x"), tags |-> JList(<<JStr("b")>>)]),
       JObj([collection_id |-> JNull, tags |-> JList(<<JStr("b")>>)]) >>

\* the files that hold no list
NonListMaps == << JObj([collection_id |-> JNum(555), tags |-> JList(<<JStr("a")>>)]),
                  JStr("a"), JNull >>

InitConfig ==
    /\ pc = "load"
    /\ \/ mapdata = NoPath
       \/ \E m \in DOMAIN NonListMaps : mapdata = NonListMaps[m]
       \/ \E ix \in SeqUpTo(DOMAIN RawRules, MaxRules) :
              mapdata = JList([i \in DOMAIN ix |-> RawRules[ix[i]]])
    /\ collection_rules = <<>>
    /\ \E d \in BOOLEAN, l \in {None, Some(1)} : args = DefaultArgs(d, TRUE, FALSE, l)
    /\ pinboard_posts = <<MainEntries[1], MainEntries[1], MainEntries[3], MainEntries[2]>>
    /\ idx = 0
    /\ seen_links = {}
    /\ stats = ZeroStats
    /\ raindrops = <<>>
    /\ run = 1
    /\ last = NoLast
    /\ payload = EmptyDict
    /\ items = <<>>

SpecConfig == InitConfig /\ [][Next]_vars

-----------------------------------------------------------------------------
(* The payload builder alone *)

\* raw tag strings, as tag_str.split(" ")
TagStrings == << <<>>, <<"a">>, <<"b", "", "a">>, <<"Work", "x">>, <<"work", "starred">>, <<"x">> >>

\* collection rules, as load_collection_map returns them
BuildRules ==
    << [collection_id |-> 555, tags |-> <<"work">>, name |-> JStr("Work")],
       [collection_id |-> 999, tags |-> <<"a", "b">>, name |-> JNull],
       [collection_id |-> 7, tags |-> <<"a", "x">>, name |-> JNull],
       [collection_id |-> 0, tags |-> <<"b", "work", "toread">>, name |-> JNull] >>

InitBuild ==
    /\ pc = "build"
    /\ mapdata = NoPath
    /\ \E ix \in SeqUpTo(DOMAIN BuildRules, MaxRules) :
           collection_rules = [i \in DOMAIN ix |-> BuildRules[ix[i]]]
    /\ \E lc \in BOOLEAN, tt \in {"toread", ""}, cid \in {0, 555},
          rl \in {None, Some(0), Some(42)} :
           args = [DefaultArgs(FALSE, TRUE, FALSE, None) EXCEPT
                     !.lowercase_tags = lc, !.toread_tag = tt,
                     !.collection_id = cid, !.readlater_collection_id = rl]
    /\ \E t \in DOMAIN TagStrings, tr \in {"yes", "no"}, ext \in {"", "n1"} :
           pinboard_posts = << [href |-> "u1", description |-> "", tags |-> TagStrings[t],
                                extended |-> ext, toread |-> tr] >>
    /\ idx = 0
    /\ seen_links = {}
    /\ stats = ZeroStats
    /\ raindrops = <<>>
    /\ run = 1
    /\ last = NoLast
    /\ payload = EmptyDict
    /\ items = <<>>

\* pinboard_to_raindrop_payload(entry, args, rules), called as smoke_test.py calls it
BuildPayload ==
    /\ pc = "build"
    /\ payload' = pinboard_to_raindrop_payload(pinboard_posts[1], args, collection_rules)
    /\ pc' = "built"
    /\ UNCHANGED <<items, mapdata, collection_rules, args, pinboard_posts, idx, seen_links,
                   stats, raindrops, run, last>>

NextBuild == BuildPayload

SpecBuild == InitBuild /\ [][NextBuild]_vars

-----------------------------------------------------------------------------
(* Properties of the batch loop.  ReconcileStep, TakeStep, LookupFailed and      *)
(* PriorHrefs name what a step of main did; TableAction is the decision table   *)
(* of the specification, written without reference to Decide.                   *)

\* a step of the loop body that reaches reconciliation (lines 358-376)
ReconcileStep == pc = "loop" /\ last'.kind = "reconcile"

\* a step in which the for loop takes an entry
TakeStep == pc = "loop" /\ last'.kind \in {"nohref", "duplicate", "dry", "reconcile"}

\* the lookup was made and failed
LookupFailed(l) == l.lookup \in {"status", "transport"}

\* the links of the entries the loop has taken in this run
PriorHrefs == {Get(pinboard_posts[i], "href", "") : i \in 1..idx} \ {""}

Urls == {"u1", "u2"}

\* the decision table of the reconciliation engine
TableAction(found, skipExisting, mergeTags) ==
    CASE ~found -> "CREATE"
      [] found /\ mergeTags -> "MERGE"
      [] found /\ skipExisting /\ ~mergeTags -> "SKIP"
      [] found /\ ~skipExisting /\ ~mergeTags -> "CREATE"

\* C1: in a non-dry run every record that reaches reconciliation gets exactly one
\* action, the one the decision table gives for (an existing record is there and no
\* lookup failed, skipExisting, mergeTags): CREATE sends one POST and no PUT, SKIP
\* sends nothing and leaves the destination alone, MERGE sends no POST and touches
\* only the record that was found.
C1_DecisionTable ==
    [][ReconcileStep =>
         LET l == last'
             found == Matches(l.href) # {} /\ ~LookupFailed(l)
         IN  /\ ~args.dry_run
             /\ l.action = TableAction(found, args.skip_existing, args.merge_tags)
             /\ l.action = "CREATE" =>
                  /\ l.sent = "POST"
                  /\ \/ raindrops' = raindrops
                     \/ /\ Len(raindrops') = Len(raindrops) + 1
                        /\ SubSeq(raindrops', 1, Len(raindrops)) = raindrops
                        /\ raindrops'[Len(raindrops')].link = l.href
             /\ l.action = "SKIP" => l.sent = "none" /\ raindrops' = raindrops
             /\ l.action = "MERGE" =>
                  /\ l.sent # "POST"
                  /\ l.existing_id \in Matches(l.href)
                  /\ Len(raindrops') = Len(raindrops)
                  /\ \A i \in DOMAIN raindrops : i # l.existing_id => raindrops'[i] = raindrops[i]
       ]_vars

\* C1 witness: with skipExisting and mergeTags both set an existing record was merged
C1_Witness ==
    /\ last.kind = "reconcile" /\ last.action = "MERGE" /\ last.sent = "PUT"
    /\ args.skip_existing /\ args.merge_tags /\ last.write = "ok"

\* C2: a failed create or update call (error status or transport failure) adds one
\* to failed, lets no error out of the loop, and the loop goes on to the next record.
C2_WriteFailureCounted ==
    [][(ReconcileStep /\ last'.write \in {"status", "transport"}) =>
         /\ stats'.failed = stats.failed + 1
         /\ pc' = "loop"
         /\ idx' = idx + 1
       ]_vars

\* C3 as stated: with skipExisting and without mergeTags no URL ever has more than
\* one record in the destination, however often the batch is run.
C3_AtMostOnePerUrl ==
    (args.skip_existing /\ ~args.merge_tags) =>
        \A u \in Urls : Cardinality(Matches(u)) <= 1

\* C3 amended: with skipExisting and without mergeTags, a record whose URL is in the
\* destination and whose lookup succeeds is skipped and nothing is written; the
\* number of records of a URL grows past one only by the CREATE after a failed lookup.
C3_NoCreateWhenFound ==
    [][(ReconcileStep /\ args.skip_existing /\ ~args.merge_tags
          /\ Matches(last'.href) # {}) =>
         IF last'.lookup = "ok"
         THEN last'.action = "SKIP" /\ last'.sent = "none" /\ raindrops' = raindrops
         ELSE LookupFailed(last') /\ last'.action = "CREATE"
       ]_vars

\* C3 witness: the second run meets a record the first run created and skips it
C3_Witness ==
    /\ run = 2 /\ args.skip_existing /\ ~args.merge_tags
    /\ last.kind = "reconcile" /\ last.lookup = "ok" /\ last.action = "SKIP"
    /\ Cardinality(Matches(last.href)) = 1

\* C4: a MERGE into a record whose tags contain the payload's tags and whose note
\* equals the payload's note sends no update request and reports success.
C4_MergeNoOp ==
    [][(ReconcileStep /\ last'.action = "MERGE"
          /\ Get(payload', "tags", {}) \subseteq Get(raindrops[last'.existing_id], "tags", {})
          /\ Get(payload', "note", "") = Get(raindrops[last'.existing_id], "note", "")) =>
         /\ last'.sent = "none"
         /\ raindrops' = raindrops
         /\ stats'.updated = stats.updated + 1
       ]_vars

\* C5: in one run at most one entry per URL reaches payload building and
\* reconciliation; a later entry with a URL already taken adds one to
\* duplicate_input and does nothing else: no lookup, no write, no payload, the other
\* counters and the destination unchanged.
C5_DuplicateOnce ==
    [][TakeStep =>
         LET href == Get(Entry, "href", "") IN
         /\ last'.kind \in {"dry", "reconcile"} => href \notin PriorHrefs
         /\ (href # "" /\ href \in PriorHrefs) =>
              /\ last'.kind = "duplicate"
              /\ stats' = [stats EXCEPT !.duplicate_input = @ + 1]
              /\ last'.lookup = "none" /\ last'.sent = "none"
              /\ raindrops' = raindrops
              /\ payload' = payload
       ]_vars

\* C5 witness: a second entry with the same URL was counted as a duplicate after the
\* first was processed
C5_Witness ==
    /\ last.kind = "duplicate" /\ stats.duplicate_input = 1 /\ stats.processed = 1
    /\ ~args.dry_run /\ last.href \in PriorHrefs

\* C6: a failed lookup is handled as "nothing found": a CREATE is attempted, neither
\* SKIP nor MERGE happens, and the lookup failure does not end the batch (the loop
\* goes on unless the create call itself raises).
C6_LookupFailureCreates ==
    [][(ReconcileStep /\ LookupFailed(last')) =>
         /\ ~last'.found
         /\ last'.action = "CREATE"
         /\ last'.sent = "POST"
         /\ last'.write # "transport" => pc' = "loop" /\ idx' = idx + 1
       ]_vars

\* C6 witness: the lookup failed although the record exists, and a second record was
\* created
C6_Witness ==
    /\ last.kind = "reconcile" /\ last.lookup = "transport" /\ last.action = "CREATE"
    /\ last.write = "ok" /\ Cardinality(Matches(last.href)) = 2 /\ pc = "loop"

\* C9: with a limit L configured (any L >= 0), processed never exceeds L.
C9_ProcessedWithinLimit ==
    args.limit # None => stats.processed <= Val(args.limit)

\* the four outcome counters of a reconciled record
Outcomes == {"created", "updated", "skipped_existing", "failed"}

OutcomeSum(st) == st.created + st.updated + st.skipped_existing + st.failed

\* C12: in a non-dry run processed = created + updated + skipped_existing + failed
\* whenever the loop is between two records (and in every other state of the run);
\* a record that reaches reconciliation and is handled to the end adds one to
\* processed and one to exactly one of the four outcome counters; an entry without
\* href and a duplicate entry change none of the five counters.
C12_CountersAddUp ==
    /\ [](~args.dry_run => stats.processed = OutcomeSum(stats))
    /\ [][(TakeStep /\ ~args.dry_run) =>
            /\ last'.kind \in {"nohref", "duplicate"} =>
                 /\ stats'.processed = stats.processed
                 /\ \A k \in Outcomes : stats'[k] = stats[k]
            /\ (last'.kind = "reconcile" /\ pc' = "loop") =>
                 /\ stats'.processed = stats.processed + 1
                 /\ \E k \in Outcomes :
                      /\ stats'[k] = stats[k] + 1
                      /\ \A j \in Outcomes \ {k} : stats'[j] = stats[j]
                 /\ stats'.duplicate_input = stats.duplicate_input
         ]_vars

\* C12 witness: a re-run skipped one record, counted a duplicate and a failed
\* create, and the counters add up
C12_Witness ==
    /\ ~args.dry_run /\ run = 2 /\ pc = "loop"
    /\ stats.processed = 2 /\ stats.skipped_existing = 1 /\ stats.failed = 1
    /\ stats.duplicate_input = 1

-----------------------------------------------------------------------------
(* Properties of the collection-map loader.  Malformed is the specification's   *)
(* notion of a malformed file, written without reference to the loader.         *)

\* an entry of the file that is no object, has no collection_id, or whose tags are
\* not a non-empty list of strings
MalformedRule(rule) ==
    IF rule.t # "object" THEN TRUE
    ELSE IF "collection_id" \notin DOMAIN rule.v \/ "tags" \notin DOMAIN rule.v THEN TRUE
    ELSE IF rule.v.tags.t # "list" THEN TRUE
    ELSE \/ rule.v.tags.v = <<>>
         \/ \E k \in DOMAIN rule.v.tags.v : rule.v.tags.v[k].t # "str"

\* a collection map file that is no list or holds a malformed entry
Malformed(data) ==
    IF data.t = "nopath" THEN FALSE
    ELSE IF data.t # "list" THEN TRUE
    ELSE \E i \in DOMAIN data.v : MalformedRule(data.v[i])

\* C10: a collection map that is no list, or has an entry that is no object, lacks
\* collection_id, or whose tags are not a non-empty list of strings, ends the run
\* while the map is loaded (the fatal configuration error; an earlier entry whose id
\* int() cannot take ends it as a traceback) before any record is looked up, written
\* or counted; so every rule in use while records are processed has at least one
\* match tag.
C10_MalformedMapIsFatal ==
    /\ Malformed(mapdata) =>
         /\ pc \in {"load", "fatal", "crashed"}
         /\ stats = ZeroStats /\ raindrops = <<>> /\ last = NoLast
    /\ pc \in {"loop", "done"} =>
         \A i \in DOMAIN collection_rules : collection_rules[i].tags # <<>>

-----------------------------------------------------------------------------
(* Properties of the payload builder *)

\* the read-later override applies to the entry that was built
Override ==
    args.readlater_collection_id # None /\ Get(pinboard_posts[1], "toread", "") = "yes"

\* the rules whose match tags share a tag with the payload's tags
Hits == {i \in DOMAIN collection_rules :
            Range(collection_rules[i].tags) \cap payload.tags # {}}

\* the earliest of them
FirstHit == CHOOSE i \in Hits : \A j \in Hits : i <= j

\* C7: the matcher is first-match-wins: where the rule matcher decides the payload's
\* collection, it is the collection_id of the earliest rule in list order that
\* shares a tag with the tag set, however many tags a later rule shares, and it is
\* the default id when no rule shares a tag.
C7_FirstMatchWins ==
    (pc = "built" /\ ~Override) =>
        IF Hits = {} THEN payload.collection = args.collection_id
        ELSE payload.collection = collection_rules[FirstHit].collection_id

\* C7 witness: two rules match, the later one shares more tags and has another id,
\* and the earlier one's id is the result
C7_Witness ==
    /\ pc = "built" /\ ~Override /\ Hits = {1, 2}
    /\ Cardinality(Range(collection_rules[2].tags) \cap payload.tags)
         > Cardinality(Range(collection_rules[1].tags) \cap payload.tags)
    /\ collection_rules[1].collection_id # collection_rules[2].collection_id
    /\ payload.collection = collection_rules[1].collection_id

\* C8: the read-later override comes before rule matching: an entry with
\* toread = "yes" and a configured --readlater-collection-id gets that id whatever
\* the rules and tags are; otherwise the collection is the rule matcher's result.
C8_ReadLaterOverride ==
    pc = "built" =>
        IF Get(pinboard_posts[1], "toread", "") = "yes"
              /\ args.readlater_collection_id # None
        THEN payload.collection = Val(args.readlater_collection_id)
        ELSE payload.collection =
               guess_collection_from_tags(payload.tags, collection_rules, args.collection_id)

\* C8 witness: the override id was chosen although a rule with another id matches
C8_Witness ==
    /\ pc = "built" /\ Override /\ Hits # {}
    /\ args.readlater_collection_id = Some(0)
    /\ collection_rules[FirstHit].collection_id = 999
    /\ payload.collection = 0

-----------------------------------------------------------------------------
(* suggest_collections.py: the reclassification pass                         *)
(*                                                                           *)
(* Here a record's tags are the list the service returns (tags[0] is read),  *)
(* and a link is [host |-> the labels of urlparse(link).netloc]; a missing   *)
(* link is the host <<>>.  The unsorted collection has id 0.                 *)

\* mutant: no match yields the unsorted id instead of None
guess_collection_default_zero(tags, rules) ==
    Some(guess_collection_from_tags(Range(tags), rules, 0))

RECURSIVE guess_from_none(_, _, _)
guess_from_none(i, tags, rules) ==
    IF i > Len(rules) THEN None
    ELSE IF \E k \in DOMAIN rules[i].tags : \E t \in DOMAIN tags : rules[i].tags[k] = tags[t]
         THEN Some(rules[i].collection_id)
         ELSE guess_from_none(i + 1, tags, rules)

guess_collection(tags, rules) == guess_from_none(1, tags, rules)

\* the suggestion is a tag, a host, or None ([kind |-> "none"])
suggest_new_collection(tags, link) ==
    IF tags # <<>> THEN [kind |-> "tag", v |-> tags[1]]
    ELSE LET netloc == link.host
             host == IF Len(netloc) >= 2 /\ netloc[1] = "www" THEN Tail(netloc) ELSE netloc
         IN  IF host # <<>> THEN [kind |-> "host", v |-> host]
             ELSE [kind |-> "none", v |-> <<>>]

\* the records GET /raindrops/0 lists
Unsorted == SelectSeq(raindrops, LAMBDA r : r.collection = 0)

Min(a, b) == IF a <= b THEN a ELSE b

RECURSIVE fetch_pages(_, _, _, _, _)
fetch_pages(page, all_items, unsorted, per_page, max_pages) ==
    LET got == SubSeq(unsorted, page * per_page + 1,
                      Min(Len(unsorted), (page + 1) * per_page))
    IN  IF got = <<>> THEN all_items
        ELSE IF max_pages # None /\ page + 1 >= Val(max_pages) THEN all_items \o got
        ELSE fetch_pages(page + 1, all_items \o got, unsorted, per_page, max_pages)

fetch_unsorted(unsorted, per_page, max_pages) ==
    fetch_pages(0, <<>>, unsorted, per_page, max_pages)

\* resp.raise_for_status() inside try/except HTTPStatusError; client.put outside
move_raindrop(status) == WriteResult(status)

SuggestZeroStats == [total |-> 0, guessed |-> 0, moved |-> 0, unmatched |-> 0]

\* the records of a destination the pass is run against
SuggestRecords ==
    << [link |-> [host |-> <<"a", "example">>], tags |-> <<"a">>, collection |-> 0],
       [link |-> [host |-> <<"b", "example">>], tags |-> <<"b", "a">>, collection |-> 0],
       [link |-> [host |-> <<"www", "host", "com">>], collection |-> 0],
       [link |-> [host |-> <<>>], tags |-> <<"z">>, collection |-> 0],
       [link |-> [host |-> <<"a", "example">>], tags |-> <<"a">>, collection |-> 555] >>

\* the entries of the collection map files the pass is run with
SuggestRawRules ==
    << JObj([collection_id |-> JNum(555), tags |-> JList(<<JStr("a")>>), name |-> JStr("A")]),
       JObj([collection_id |-> JNum(7), tags |-> JList(<<JStr("b"), JStr("a")>>)]),
       JObj([collection_id |-> JNum(9), tags |-> JList(<<JStr("q")>>)]) >>

\* --per-page: one record a page, and the default
PerPages == {1, 100}

InitSuggest ==
    /\ pc = "sload"
    /\ \/ mapdata = NonListMaps[1]
       \/ \E ix \in SeqUpTo(DOMAIN SuggestRawRules, MaxRules) :
              mapdata = JList([i \in DOMAIN ix |-> SuggestRawRules[ix[i]]])
    /\ collection_rules = <<>>
    /\ \E ap \in BOOLEAN, pp \in PerPages, mp \in {None, Some(1)} :
           args = [apply |-> ap, per_page |-> pp, max_pages |-> mp]
    /\ \E ix \in SeqUpTo(DOMAIN SuggestRecords, MaxItems) :
           raindrops = [i \in DOMAIN ix |-> ("_id" :> i) @@ SuggestRecords[ix[i]]]
    /\ pinboard_posts = <<>>
    /\ idx = 0
    /\ seen_links = {}
    /\ stats = SuggestZeroStats
    /\ run = 1
    /\ last = NoLast
    /\ payload = EmptyDict
    /\ items = <<>>

\* suggest_collections.main, lines 143-147: a ValueError is fatal
SuggestLoad ==
    /\ pc = "sload"
    /\ LET r == load_collection_map(mapdata) IN
         /\ pc' = CASE r.err = "none" -> "sfetch"
                    [] r.err = "ValueError" -> "fatal"
                    [] OTHER -> "crashed"
         /\ collection_rules' = r.rules
    /\ UNCHANGED <<items, mapdata, args, pinboard_posts, idx, seen_links, stats,
                   raindrops, run, last, payload>>

\* line 166: the unsorted records are fetched; a failed page request leaves main
\* as an exception
SuggestFetch ==
    /\ pc = "sfetch"
    /\ \E status \in {"ok", "error"} :
         IF status = "ok"
         THEN /\ items' = fetch_unsorted(Unsorted, args.per_page, args.max_pages)
              /\ pc' = "sloop"
         ELSE /\ pc' = "crashed"
              /\ UNCHANGED items
    /\ UNCHANGED <<mapdata, collection_rules, args, pinboard_posts, idx, seen_links,
                   stats, raindrops, run, last, payload>>

\* what an iteration of the loop over items did
SuggestObserved(id, guess, sent, write, suggestion) ==
    [kind |-> "item", id |-> id, guess |-> guess, sent |-> sent, write |-> write,
     suggestion |-> suggestion]

NoSuggestion == [kind |-> "none", v |-> <<>>]

\* lines 168-198: one record is counted, matched, and moved or reported
SuggestItem ==
    /\ pc = "sloop"
    /\ idx < Len(items)
    /\ LET item  == items[idx + 1]
           tags  == Get(item, "tags", <<>>)
           guess == guess_collection(tags, collection_rules)
           st    == [stats EXCEPT !.total = @ + 1]
       IN
       IF guess # None
       THEN IF args.apply
            THEN \E status \in WriteStatuses :
                   LET mv == move_raindrop(status) IN
                   /\ raindrops' = IF Applied(status)
                                   THEN [raindrops EXCEPT ![item._id].collection = Val(guess)]
                                   ELSE raindrops
                   /\ last' = SuggestObserved(item._id, guess, "PUT", status, NoSuggestion)
                   /\ IF mv.exc
                      THEN /\ pc' = "crashed"
                           /\ stats' = [st EXCEPT !.guessed = @ + 1]
                           /\ UNCHANGED idx
                      ELSE /\ stats' = [st EXCEPT !.guessed = @ + 1,
                                                  !.moved = IF mv.ok THEN @ + 1 ELSE @]
                           /\ idx' = idx + 1
                           /\ UNCHANGED pc
            ELSE /\ stats' = [st EXCEPT !.guessed = @ + 1]
                 /\ last' = SuggestObserved(item._id, guess, "none", "none", NoSuggestion)
                 /\ idx' = idx + 1
                 /\ UNCHANGED <<pc, raindrops>>
       ELSE /\ stats' = [st EXCEPT !.unmatched = @ + 1]
            /\ last' = SuggestObserved(item._id, guess, "none", "none",
                                       suggest_new_collection(tags, item.link))
            /\ idx' = idx + 1
            /\ UNCHANGED <<pc, raindrops>>
    /\ UNCHANGED <<items, mapdata, collection_rules, args, pinboard_posts, seen_links,
                   run, payload>>

\* lines 168, 200: the list is exhausted, the summary is logged
SuggestEnd ==
    /\ pc = "sloop"
    /\ idx = Len(items)
    /\ pc' = "sdone"
    /\ UNCHANGED <<items, mapdata, collection_rules, args, pinboard_posts, idx,
                   seen_links, stats, raindrops, run, last, payload>>

NextSuggest ==
    \/ SuggestLoad
    \/ SuggestFetch
    \/ SuggestItem
    \/ SuggestEnd

SpecSuggest == InitSuggest /\ [][NextSuggest]_vars

-----------------------------------------------------------------------------
(* Properties of the reclassification pass *)

\* a loop iteration of suggest_collections.main
ItemStep == pc = "sloop" /\ idx < Len(items) /\ last'.kind = "item"

\* the rules whose match tags share a tag with the tags of a record
RuleHits(item) ==
    {i \in DOMAIN collection_rules :
        Range(collection_rules[i].tags) \cap Range(Get(item, "tags", <<>>)) # {}}

FirstRuleHit(item) == CHOOSE i \in RuleHits(item) : \A j \in RuleHits(item) : i <= j

\* the advisory name of the specification: the first tag, else the host without a
\* leading "www.", else none
AdvisedName(item) ==
    LET tags == Get(item, "tags", <<>>) IN
    IF Len(tags) > 0 THEN [kind |-> "tag", v |-> Head(tags)]
    ELSE IF item.link.host = <<>> THEN [kind |-> "none", v |-> <<>>]
    ELSE IF Head(item.link.host) = "www" /\ Len(item.link.host) > 1
         THEN [kind |-> "host", v |-> Tail(item.link.host)]
         ELSE [kind |-> "host", v |-> item.link.host]

\* C11: in the reclassification pass a move is written for a fetched record only in
\* apply mode and only when some rule shares a tag with the record, and then to the
\* collection_id of the first such rule in list order; a record that matches no rule
\* is never moved or written in either mode, adds one to unmatched and nothing to
\* guessed, and its suggested new collection name is only reported.
C11_MoveOnlyOnRuleMatch ==
    [][ItemStep =>
         LET item == items[idx + 1]
             hits == RuleHits(item)
         IN  /\ last'.id = item._id
             /\ last'.sent = "PUT" =>
                  /\ args.apply
                  /\ hits # {}
                  /\ last'.guess = Some(collection_rules[FirstRuleHit(item)].collection_id)
             /\ raindrops' # raindrops =>
                  /\ last'.sent = "PUT"
                  /\ raindrops' = [raindrops EXCEPT ![item._id].collection =
                                       collection_rules[FirstRuleHit(item)].collection_id]
             /\ hits = {} =>
                  /\ last'.sent = "none"
                  /\ raindrops' = raindrops
                  /\ stats'.unmatched = stats.unmatched + 1
                  /\ stats'.guessed = stats.guessed
                  /\ stats'.moved = stats.moved
                  /\ last'.suggestion = AdvisedName(item)
       ]_vars

\* C11 witness: in apply mode a record matched by two rules was moved to the first
\* rule's collection
C11_Witness ==
    /\ pc = "sloop" /\ last.kind = "item" /\ args.apply /\ idx > 0
    /\ RuleHits(items[idx]) = {1, 2}
    /\ collection_rules[1].collection_id # collection_rules[2].collection_id
    /\ last.sent = "PUT" /\ last.write = "ok"
    /\ raindrops[last.id].collection = collection_rules[1].collection_id
    /\ stats.moved = 1

====
